---- MODULE Spec2Model ----
(***************************************************************************)
(* Model of the habitat layout editor of script.js: the zone list, the     *)
(* habitat form controls, import/export of layout documents, and the       *)
(* drag-and-drop / zone-editor handlers that write zone positions.         *)
(*                                                                         *)
(* Numbers.  Lengths are fixed-point integers in thousandths of a unit     *)
(* (1.5 is 1500), computed exactly.  NaN is a separate value: every        *)
(* comparison with it is false and every arithmetic result from it is NaN, *)
(* as in IEEE arithmetic.  A decimal string such as "-0.00" or "7.27" is   *)
(* a record [nan, neg, digits] (sign, and the digits read as an integer),  *)
(* so that formatting and parsing are two different conversions.           *)
(*                                                                         *)
(* Objects.  Every zone mesh ever created is an id; mesh[id] is the        *)
(* object's fields.  zones is the array of ids; selectedZone,              *)
(* selectedZones, currentEditingZone and running animations hold ids too   *)
(* and may keep an object alive after it left zones, as references do.     *)
(***************************************************************************)
EXTENDS Integers, Sequences, FiniteSets, TLC

\* ------------------------------------------------------------------ bounds
MaxIds == 5
InitialZones == 2
MaxAnims == 1
MaxTimers == 1
MaxSceneObjects == 16

\* --------------------------------------------------------------- numbers
NaN == -999999999

IsNum(v) == v # NaN

Abs(v) == IF v < 0 THEN -v ELSE v

Add(a, b) == IF IsNum(a) /\ IsNum(b) THEN a + b ELSE NaN

\* sqrt(sq) <= m: the comparison the code does not make
SqrtLe(sq, m) == IsNum(sq) /\ IsNum(m) /\ m > 0 /\ sq <= m * m

\* sqrt(sq) < m, for sq a square distance and m a length (both exact)
SqrtLt(sq, m) == IsNum(sq) /\ IsNum(m) /\ m > 0 /\ sq < m * m

\* Math.round(v / 1.0) * 1.0 : nearest integer, halves towards +Infinity
MathRound(v) == IF IsNum(v) THEN ((v + 500) \div 1000) * 1000 ELSE NaN

\* Number.prototype.toFixed(d), unit = 10^(3-d): the sign is kept whenever the
\* number is below zero, even when every digit printed is 0; NaN prints "NaN"
ToFixed(v, unit) ==
    IF ~IsNum(v) THEN [nan |-> TRUE, neg |-> FALSE, digits |-> 0]
    ELSE [nan |-> FALSE, neg |-> v < 0, digits |-> (Abs(v) + unit \div 2) \div unit]

\* parseFloat of a decimal string with 3-d fractional digits (-0 is 0)
ParseFloat(s, unit) ==
    IF s.nan THEN NaN
    ELSE IF s.neg THEN -(s.digits * unit) ELSE s.digits * unit

toFixed2(v) == ToFixed(v, 10)
parseFloat2(s) == ParseFloat(s, 10)

\* the text of a number field of the zone editor, read back as a number
toFixed1(v) == ParseFloat(ToFixed(v, 100), 100)

Vec(x, y, z) == [x |-> x, y |-> y, z |-> z]

\* width, height, depth of a zone's box
Dim(width_, height_, depth_) == [width |-> width_, height |-> height_, depth |-> depth_]

\* Vector3.distanceTo, squared
DistSq(p, q) ==
    IF IsNum(p.x) /\ IsNum(p.y) /\ IsNum(p.z) /\ IsNum(q.x) /\ IsNum(q.y) /\ IsNum(q.z)
    THEN (p.x - q.x) * (p.x - q.x) + (p.y - q.y) * (p.y - q.y) + (p.z - q.z) * (p.z - q.z)
    ELSE NaN

\* x*x + z*z
PlanarSq(p) == IF IsNum(p.x) /\ IsNum(p.z) THEN p.x * p.x + p.z * p.z ELSE NaN

\* ------------------------------------------------------- layout documents
\* A decimal string of a document: Str(neg, digits) is "[-]d.dd"; NaNStr is
\* text that parseFloat does not read as a number.
Str(neg, digits) == [nan |-> FALSE, neg |-> neg, digits |-> digits]
NaNStr == [nan |-> TRUE, neg |-> FALSE, digits |-> 0]

StrVec(x, y, z) == [x |-> x, y |-> y, z |-> z]

\* one entry of a document's zones array; hasPosition = FALSE: no "position"
ZoneData(type, position) == [type |-> type, hasPosition |-> TRUE, position |-> position]
ZoneDataNoPosition(type) ==
    [type |-> type, hasPosition |-> FALSE, position |-> StrVec(NaNStr, NaNStr, NaNStr)]

Habitat(shape_, radius_, height_, crew_) ==
    [shape |-> shape_, radius |-> radius_, height |-> height_, crew |-> crew_]
NoHabitat == Habitat("", NaN, NaN, NaN)

\* A parsed JSON value as loadLayout reads it.  hasHabitat / hasZones say
\* whether the field exists; a habitat number that is NaN here stands for a
\* JSON value that is not a number (null, a string), on which toFixed throws.
Layout(habitat, zoneList) ==
    [hasHabitat |-> TRUE, habitat |-> habitat, hasZones |-> TRUE, zones |-> zoneList]
LayoutNoHabitat(zoneList) ==
    [hasHabitat |-> FALSE, habitat |-> NoHabitat, hasZones |-> TRUE, zones |-> zoneList]
LayoutNoZones(habitat) ==
    [hasHabitat |-> TRUE, habitat |-> habitat, hasZones |-> FALSE, zones |-> <<>>]

\* The text of a file: valid JSON holding `layout`, or text JSON.parse rejects
JsonFile(layout) == [json |-> TRUE, layout |-> layout]
NotJsonFile == [json |-> FALSE, layout |-> LayoutNoHabitat(<<>>)]
NoFile == [json |-> FALSE, layout |-> LayoutNoZones(NoHabitat)]

AllInitialZones ==
    << ZoneData("sleeping",    StrVec(Str(FALSE, 727), Str(FALSE, 100), Str(FALSE, 81))),
       ZoneData("bathroom",    StrVec(Str(TRUE, 592),  Str(FALSE, 100), Str(TRUE, 611))),
       ZoneData("storage",     StrVec(Str(FALSE, 664), Str(FALSE, 100), Str(TRUE, 705))),
       ZoneData("exercise",    StrVec(Str(TRUE, 54),   Str(FALSE, 100), Str(TRUE, 241))),
       ZoneData("workstation", StrVec(Str(FALSE, 697), Str(FALSE, 100), Str(TRUE, 619))),
       ZoneData("kitchen",     StrVec(Str(TRUE, 343),  Str(FALSE, 100), Str(TRUE, 62))),
       ZoneData("airlock",     StrVec(Str(FALSE, 380), Str(FALSE, 100), Str(TRUE, 115))),
       ZoneData("medical",     StrVec(Str(FALSE, 636), Str(FALSE, 100), Str(FALSE, 371))) >>

\* the built-in layout, cut to its first InitialZones zones
initialLayoutData ==
    Layout(Habitat("dome", 10000, 15000, 8),
           SubSeq(AllInitialZones, 1,
                  IF InitialZones < Len(AllInitialZones) THEN InitialZones
                  ELSE Len(AllInitialZones)))

\* ------------------------------------------------------------ info panel
\* A habitat length in half metres (the radii and heights of the inputs are
\* multiples of 0.5), so that the cubes below stay small
Halves(v) == IF IsNum(v) THEN v \div 500 ELSE NaN

\* a * b on numbers
Mul(a, b) == IF IsNum(a) /\ IsNum(b) THEN a * b ELSE NaN

\* a volume that takes every shape but the cylinder for a dome: what
\* updateInfo() does not compute
VolumeDomeElse(shape_, r, h) ==
    IF shape_ = "cylinder" THEN Mul(3, Mul(Mul(r, r), h)) ELSE Mul(2, Mul(r, Mul(r, r)))

\* The volume updateInfo() computes, in units of (pi / 3) * 0.5^3 cubic metres:
\* cylinder pi r r h, dome (2/3) pi r^3, any other shape
\* pi r r (h - 2 r) + (4/3) pi r^3
Volume(shape_, r, h) ==
    IF shape_ = "cylinder" THEN Mul(3, Mul(Mul(r, r), h))
    ELSE IF shape_ = "dome" THEN Mul(2, Mul(r, Mul(r, r)))
    ELSE Add(Mul(3, Mul(Mul(r, r), Add(h, Mul(-2, r)))), Mul(4, Mul(r, Mul(r, r))))

\* volume / crew as JavaScript divides: a fraction, or Infinity, -Infinity, NaN
Quotient(v, c) ==
    IF ~IsNum(v) \/ ~IsNum(c) \/ (v = 0 /\ c = 0) THEN [kind |-> "NaN", num |-> 0, den |-> 1]
    ELSE IF c = 0 THEN [kind |-> IF v > 0 THEN "Infinity" ELSE "-Infinity", num |-> 0, den |-> 1]
    ELSE [kind |-> "number", num |-> v, den |-> c]

\* the figures updateInfo() puts into the info panel (before toFixed(1));
\* floor area in units of pi * 0.5^2 square metres
InfoOf(shape_, radius_, height_, crew_, count) ==
    [volume       |-> Volume(shape_, Halves(radius_), Halves(height_)),
     floorArea    |-> Mul(Halves(radius_), Halves(radius_)),
     perAstronaut |-> Quotient(Volume(shape_, Halves(radius_), Halves(height_)), crew_),
     zonesCount   |-> count]

\* the info panel before updateInfo() has run: the text of index.html
NoInfo == [volume |-> NaN, floorArea |-> NaN, perAstronaut |-> Quotient(NaN, NaN), zonesCount |-> 0]

\* ------------------------------------------------------------------ state
VARIABLES
    zones,              \* the zones array: ids of the meshes, in insertion order
    mesh,               \* id -> [type, position] of every mesh still referenced
    nextId,             \* the next fresh id (generateUUID never repeats one)
    shape, radius, height, crew,   \* values of the habitat form controls
    floorRadius,        \* radius of the habitatFloor disc createHabitat built last,
                        \* NaN while there is none
    selectedZone,       \* id, or Null
    selectedZones,      \* set of ids
    multiSelectMode,
    currentEditingZone, \* id, or Null
    posField,           \* zone editor fields zone-pos-x/y/z, as numbers read back
    dimField,           \* zone editor fields zone-width/height/depth, likewise
    info,               \* what updateInfo() wrote last to the info panel
    isDragging,
    dragStartPosition,  \* the one shared Vector3
    controlsEnabled,    \* controls.enabled
    snapToGrid,
    anims,              \* running animateZoneToPosition closures: [zone, startPosition],
                        \* with origin, the value dragStartPosition had at the call
    deselectTimers,     \* pending 1 s timers of onPointerUp
    startupPending,     \* the 2 s timer of init has not fired yet
    reader,             \* text of the file a FileReader is reading, or NoFile
    exported,           \* the last document handed to the download link, or NoFile
    feedback,           \* text of the placement-feedback element
    zoneColors,         \* the zoneColors object: type -> colour
    zonesList,          \* the entries of the zones-list panel, as updateZonesList
                        \* built them last
    showCrew,
    crewAvatars,        \* length of the crewAvatars array
    sceneAvatars,       \* crew avatar groups that are in the scene
    sceneParticles      \* crew particle-trail objects that are in the scene

vars == << zones, mesh, nextId, shape, radius, height, crew, floorRadius, selectedZone,
           selectedZones, multiSelectMode, currentEditingZone, posField, dimField, info,
           isDragging, dragStartPosition, controlsEnabled, snapToGrid, anims,
           deselectTimers, startupPending, reader, exported, feedback, zoneColors,
           zonesList, showCrew, crewAvatars, sceneAvatars, sceneParticles >>

Null == 0

habitatVars == << shape, radius, height, crew >>
selectionVars == << selectedZone, selectedZones, multiSelectMode >>
editorVars == << currentEditingZone, posField, dimField >>
dragVars == << isDragging, dragStartPosition, controlsEnabled, snapToGrid >>
timerVars == << anims, deselectTimers, startupPending >>
fileVars == << reader, exported >>
listVars == << zoneColors, zonesList >>
crewVars == << showCrew, crewAvatars, sceneAvatars, sceneParticles >>

\* const zoneColors = { sleeping: 0x4169E1, ... }
InitialZoneColors ==
    [type \in {"sleeping", "bathroom", "storage", "exercise", "workstation", "kitchen",
               "airlock", "medical"} |->
        CASE type = "sleeping"    -> 4286945
          [] type = "bathroom"    -> 2142890
          [] type = "storage"     -> 8421504
          [] type = "exercise"    -> 16737095
          [] type = "workstation" -> 16766720
          [] type = "kitchen"     -> 3329330
          [] type = "airlock"     -> 16729344
          [] type = "medical"     -> 16716947]

Position(id) == mesh[id].position

\* what updateInfo() writes, from the form controls and the zones array
updateInfo == InfoOf(shape, radius, height, crew, Len(zones))

\* the state after init() returns: index.html's form defaults are those of
\* the built-in layout, nothing is selected, the start-up timer is pending;
\* init() builds no habitat (there is no floor disc yet) and writes no info
Init ==
    /\ zones = <<>>
    /\ mesh = << >>
    /\ nextId = 1
    /\ shape = "dome" /\ radius = 10000 /\ height = 15000 /\ crew = 8
    /\ floorRadius = NaN
    /\ selectedZone = Null
    /\ selectedZones = {}
    /\ multiSelectMode = FALSE
    /\ currentEditingZone = Null
    /\ posField = Vec(0, 0, 0)
    /\ dimField = Dim(0, 0, 0)
    /\ info = NoInfo
    /\ isDragging = FALSE
    /\ dragStartPosition = Vec(0, 0, 0)
    /\ controlsEnabled = TRUE
    /\ snapToGrid = TRUE
    /\ anims = {}
    /\ deselectTimers = 0
    /\ startupPending = TRUE
    /\ reader = NoFile
    /\ exported = NoFile
    /\ feedback = ""
    /\ zoneColors = InitialZoneColors
    /\ zonesList = <<>>
    /\ showCrew = FALSE
    /\ crewAvatars = 0
    /\ sceneAvatars = 0
    /\ sceneParticles = 0

\* ----------------------------------------------------------- zone list
\* new THREE.Color(colors[type]): white when the type has no colour
ColorOf(colors, type) == IF type \in DOMAIN colors THEN colors[type] ELSE 16777215

\* a new zone mesh: BoxGeometry(2, 2, 2), the fill colour that of its type
NewMesh(type, position) ==
    [type |-> type, position |-> position, dimensions |-> Dim(2000, 2000, 2000),
     color |-> ColorOf(zoneColors, type)]

\* colors[type] || 0x00a8ff, the swatch of a list entry
SwatchOf(colors, type) == IF type \in DOMAIN colors THEN colors[type] ELSE 43263

\* the list panel with the newest zone first: what updateZonesList() does
\* not build
NewestFirst(zs, m, colors) ==
    [i \in 1..Len(zs) |->
        [id     |-> zs[Len(zs) + 1 - i],
         type   |-> m[zs[Len(zs) + 1 - i]].type,
         swatch |-> SwatchOf(colors, m[zs[Len(zs) + 1 - i]].type)]]

\* updateZonesList(): one entry per element of the zones array, in its order,
\* with the zone's id (data-id), its type as the name and the type's colour
ZonesListOf(zs, m, colors) ==
    [i \in 1..Len(zs) |->
        [id |-> zs[i], type |-> m[zs[i]].type, swatch |-> SwatchOf(colors, m[zs[i]].type)]]

\* updateZonesList() at the end of a handler
updateZonesList == zonesList' = ZonesListOf(zones', mesh', zoneColors')

\* ------------------------------------------------------------------ crew
CrewHere == [showCrew |-> showCrew, crewAvatars |-> crewAvatars,
             sceneAvatars |-> sceneAvatars, sceneParticles |-> sceneParticles]

\* how often the loop for (let i = 0; i < crewSize; i++) runs
AvatarCount(crewSize) == IF IsNum(crewSize) /\ crewSize > 0 THEN crewSize ELSE 0

\* createCrewAvatars(): the avatars of the crewAvatars array and their
\* particle trails leave the scene, then crewSize new pairs are added
createCrewAvatars(state, crewSize) ==
    [showCrew       |-> state.showCrew,
     crewAvatars    |-> AvatarCount(crewSize),
     sceneAvatars   |-> state.sceneAvatars - state.crewAvatars + AvatarCount(crewSize),
     sceneParticles |-> state.sceneParticles - state.crewAvatars + AvatarCount(crewSize)]

\* toggleCrewAvatars(): hiding removes the avatars of the array from the
\* scene and empties the array; the particle trails are not touched
toggleCrewAvatars(state, crewSize) ==
    IF ~state.showCrew
    THEN createCrewAvatars([state EXCEPT !.showCrew = TRUE], crewSize)
    ELSE [showCrew       |-> FALSE,
          crewAvatars    |-> 0,
          sceneAvatars   |-> state.sceneAvatars - state.crewAvatars,
          sceneParticles |-> state.sceneParticles]

\* if (showCrew) toggleCrewAvatars(), of resetHabitat()
HideCrew(state) == IF state.showCrew THEN toggleCrewAvatars(state, 0) ELSE state

SetCrew(state) ==
    /\ showCrew' = state.showCrew
    /\ crewAvatars' = state.crewAvatars
    /\ sceneAvatars' = state.sceneAvatars
    /\ sceneParticles' = state.sceneParticles

\* an addZone whose id is the zone's place in the array: what generateUUID()
\* does not give
IdByPlace(state, type, position) ==
    [zones  |-> Append(state.zones, Len(state.zones) + 1),
     mesh   |-> (Len(state.zones) + 1 :> NewMesh(type, position)) @@ state.mesh,
     nextId |-> state.nextId + 1]

\* addZone(type, position) applied to a zone array, a heap and the id
\* generateUUID() returns next
AddZoneTo(state, type, position) ==
    [zones  |-> Append(state.zones, state.nextId),
     mesh   |-> (state.nextId :> NewMesh(type, position)) @@ state.mesh,
     nextId |-> state.nextId + 1]

Here == [zones |-> zones, mesh |-> mesh, nextId |-> nextId]

\* (Math.random() - 0.5) * radius, with Math.random() - 0.5 = u / 10000
RandomCoordinate(u, r) == IF IsNum(r) THEN (u * r) \div 10000 ELSE NaN

\* zones.findIndex(z => z.userData.id === id), 0 for -1
FindIndex(zs, id) ==
    IF \E i \in 1..Len(zs) : zs[i] = id
    THEN CHOOSE i \in 1..Len(zs) : zs[i] = id /\ \A j \in 1..(i - 1) : zs[j] # id
    ELSE 0

\* zones.splice(index): everything from index on goes, what the code's
\* splice(index, 1) does not do
SpliceToEnd(zs, index) == SubSeq(zs, 1, index - 1)

\* zones.splice(index, 1)
Splice(zs, index) == SubSeq(zs, 1, index - 1) \o SubSeq(zs, index + 1, Len(zs))

\* removeZone(id) on the zones array
RemoveZoneFrom(zs, id) ==
    IF FindIndex(zs, id) # 0 THEN Splice(zs, FindIndex(zs, id)) ELSE zs

\* ------------------------------------------------------- import / export
\* JSON.stringify of the object exportLayout builds (NaN is written null)
ExportedLayout ==
    Layout(Habitat(shape, radius, height, crew),
           [i \in 1..Len(zones) |->
               ZoneData(mesh[zones[i]].type,
                        StrVec(toFixed2(Position(zones[i]).x),
                               toFixed2(Position(zones[i]).y),
                               toFixed2(Position(zones[i]).z)))])

\* number of leading entries of a zones array that loadLayout can read
ReadableZones(zoneList) ==
    IF \A i \in 1..Len(zoneList) : zoneList[i].hasPosition THEN Len(zoneList)
    ELSE (CHOOSE i \in 1..Len(zoneList) :
            /\ ~zoneList[i].hasPosition
            /\ \A j \in 1..(i - 1) : zoneList[j].hasPosition) - 1

ParsedPosition(zoneData) ==
    Vec(parseFloat2(zoneData.position.x), parseFloat2(zoneData.position.y),
        parseFloat2(zoneData.position.z))

\* How far loadLayout(layout) gets.  It throws on reading layout.habitat.shape
\* when habitat is missing; on radius.toFixed / height.toFixed when that value
\* is not a number (after all four controls were assigned); on
\* layout.zones.forEach when zones is missing; on zoneData.position.x when a
\* zone has no position (after the zones before it were added).
LoadOutcome(layout) ==
    LET numbersOk == /\ layout.hasHabitat
                     /\ IsNum(layout.habitat.radius)
                     /\ IsNum(layout.habitat.height)
        added == IF numbersOk /\ layout.hasZones THEN ReadableZones(layout.zones) ELSE 0
    IN  [threw          |-> ~numbersOk \/ ~layout.hasZones \/ added < Len(layout.zones),
         habitatWritten |-> layout.hasHabitat,
         added          |-> added]

RECURSIVE AddZonesFrom(_, _, _)
\* layout.zones.forEach(zoneData => addZone(zoneData.type, pos)), first n entries
AddZonesFrom(state, zoneList, n) ==
    IF n = 0 THEN state
    ELSE LET before == AddZonesFrom(state, zoneList, n - 1)
         IN  AddZoneTo(before, zoneList[n].type, ParsedPosition(zoneList[n]))

\* a reset that keeps the zones array: what resetHabitat() does not do
KeepZones(state) == state

\* resetHabitat() on a zone array and a heap: the array is emptied, the
\* meshes stay objects
resetHabitat(state) == [zones |-> <<>>, mesh |-> state.mesh, nextId |-> state.nextId]

\* the zones array, heap and id counter loadLayout(layout) leaves, whether it
\* returns or throws
Loaded(layout) ==
    AddZonesFrom(resetHabitat(Here), layout.zones, LoadOutcome(layout).added)

\* the form controls, the floor disc and the info panel loadLayout(layout)
\* leaves: the four controls are assigned before the toFixed calls;
\* createHabitat() and updateInfo() run in resetHabitat, createHabitat() again
\* after the toFixed calls, updateInfo() again in every addZone and at the end
loadLayout(layout) ==
    /\ zones' = Loaded(layout).zones
    /\ nextId' = Loaded(layout).nextId
    /\ IF LoadOutcome(layout).habitatWritten
       THEN /\ shape' = layout.habitat.shape
            /\ radius' = layout.habitat.radius
            /\ height' = layout.habitat.height
            /\ crew' = layout.habitat.crew
       ELSE UNCHANGED habitatVars
    /\ floorRadius' = IF /\ LoadOutcome(layout).habitatWritten
                         /\ IsNum(layout.habitat.radius)
                         /\ IsNum(layout.habitat.height)
                      THEN layout.habitat.radius ELSE radius
    /\ info' = IF LoadOutcome(layout).threw /\ LoadOutcome(layout).added = 0
               THEN InfoOf(shape, radius, height, crew, 0)
               ELSE updateInfo'
    /\ SetCrew(HideCrew(CrewHere))
    /\ UNCHANGED zoneColors

\* ------------------------------------------------------------ placement
ZoneIds == { zones[i] : i \in 1..Len(zones) }

\* the meshes something still refers to
LiveIds(zs, sel, sels, editing, running) ==
    { zs[i] : i \in 1..Len(zs) } \cup ({sel, editing} \ {Null}) \cup sels
        \cup { a.zone : a \in running }

\* the heap after a handler: m, without the meshes nothing refers to any more
Heap(m) ==
    mesh' = [id \in (DOMAIN m) \cap LiveIds(zones', selectedZone', selectedZones',
                                             currentEditingZone', anims') |-> m[id]]

SetPosition(id, position) == [mesh EXCEPT ![id].position = position]

\* distanceFromCenter < radius - 1.5
WithinBoundary(p) == SqrtLt(PlanarSq(p), Add(radius, -1500))

\* the loop over zones of onPointerMove / onPointerUp: some zone other than
\* `id` lies at distance < 2.5 from position `from`
HasCollision(id, from) ==
    \E i \in 1..Len(zones) : zones[i] # id /\ SqrtLt(DistSq(from, Position(zones[i])), 2500)

\* the pointer's point as it is: what onPointerMove uses only when
\* snapToGrid is off
RawPoint(point) == point

\* the point onPointerMove moves the zone to: snapped when snapToGrid is set
SnappedPoint(point) ==
    IF snapToGrid THEN [x |-> MathRound(point.x), z |-> MathRound(point.z)] ELSE point

\* the position onPointerMove measures the distances to the other zones from:
\* selectedZone.position, which is written only after the test
CollisionProbe(id, newPosition) == Position(id)

\* Vector3.lerpVectors(v1, v2, 1/2)
LerpHalf(v1, v2) ==
    Vec(Add(v1.x, IF IsNum(v2.x) /\ IsNum(v1.x) THEN (v2.x - v1.x) \div 2 ELSE NaN),
        Add(v1.y, IF IsNum(v2.y) /\ IsNum(v1.y) THEN (v2.y - v1.y) \div 2 ELSE NaN),
        Add(v1.z, IF IsNum(v2.z) /\ IsNum(v1.z) THEN (v2.z - v1.z) \div 2 ELSE NaN))

\* Vector3.lerpVectors(v1, v2, 1)
LerpOne(v1, v2) ==
    Vec(Add(v1.x, Add(v2.x, IF IsNum(v1.x) THEN -v1.x ELSE NaN)),
        Add(v1.y, Add(v2.y, IF IsNum(v1.y) THEN -v1.y ELSE NaN)),
        Add(v1.z, Add(v2.z, IF IsNum(v1.z) THEN -v1.z ELSE NaN)))

NaNVec == Vec(NaN, NaN, NaN)

\* The first, synchronous call of animate() inside animateZoneToPosition(zone,
\* dragStartPosition).  duration = min(distance * 200, 1000).  With distance 0
\* progress is min(elapsed / 0, 1): NaN when performance.now() has not advanced
\* (elapsedZero), else 1.  With distance NaN progress is NaN.  Otherwise the
\* first frame is at progress 0 and a further frame is requested.
FirstFrame(id, elapsedZero) ==
    LET d == DistSq(Position(id), dragStartPosition)
    IN  IF ~IsNum(d) THEN [position |-> NaNVec, again |-> FALSE]
        ELSE IF d = 0
             THEN [position |-> IF elapsedZero THEN NaNVec
                                ELSE LerpOne(Position(id), dragStartPosition),
                   again |-> FALSE]
             ELSE [position |-> Position(id), again |-> TRUE]

Min(a, b) == IF a < b THEN a ELSE b

\* a mesh the raycaster can hit: a zone whose position is a point
Hittable(id) ==
    id \in ZoneIds /\ IsNum(Position(id).x) /\ IsNum(Position(id).y) /\ IsNum(Position(id).z)

\* ---------------------------------------------------------------- handlers
\* the setTimeout callback of init()
StartupTimer ==
    /\ startupPending
    /\ nextId + Len(initialLayoutData.zones) <= MaxIds + 1
    /\ startupPending' = FALSE
    /\ loadLayout(initialLayoutData)
    /\ feedback' = "Layout loaded!"
    /\ UNCHANGED << selectionVars, editorVars, dragVars, anims, deselectTimers, fileVars >>
    /\ Heap(Loaded(initialLayoutData).mesh)
    /\ updateZonesList

ShapeChange(s) ==
    /\ shape' = s
    /\ floorRadius' = radius
    /\ UNCHANGED << zones, mesh, nextId, radius, height, crew, selectionVars, editorVars,
                    dragVars, timerVars, fileVars, feedback, listVars, crewVars >>
    /\ info' = updateInfo'

RadiusInput(r) ==
    /\ radius' = r
    /\ floorRadius' = r
    /\ UNCHANGED << zones, mesh, nextId, shape, height, crew, selectionVars, editorVars,
                    dragVars, timerVars, fileVars, feedback, listVars, crewVars >>
    /\ info' = updateInfo'

HeightInput(h) ==
    /\ height' = h
    /\ floorRadius' = radius
    /\ UNCHANGED << zones, mesh, nextId, shape, radius, crew, selectionVars, editorVars,
                    dragVars, timerVars, fileVars, feedback, listVars, crewVars >>
    /\ info' = updateInfo'

\* input event of the crew control
CrewInput(c) ==
    /\ crew' = c
    /\ SetCrew(IF showCrew THEN createCrewAvatars(CrewHere, c) ELSE CrewHere)
    /\ UNCHANGED << zones, mesh, nextId, shape, radius, height, floorRadius, selectionVars,
                    editorVars, dragVars, timerVars, fileVars, feedback, listVars >>
    /\ info' = updateInfo'

\* click on toggle-crew-btn
ToggleCrewClick ==
    /\ toggleCrewAvatars(CrewHere, crew).sceneParticles <= MaxSceneObjects
    /\ SetCrew(toggleCrewAvatars(CrewHere, crew))
    /\ UNCHANGED << zones, mesh, nextId, habitatVars, floorRadius, info, selectionVars,
                    editorVars, dragVars, timerVars, fileVars, feedback, listVars >>

\* click on add-zone-btn: addZone(type) without a position
AddZoneClick(type, ux, uz) ==
    /\ nextId <= MaxIds
    /\ LET added == AddZoneTo(Here, type,
                              Vec(RandomCoordinate(ux, radius), 1000,
                                  RandomCoordinate(uz, radius)))
       IN  zones' = added.zones /\ mesh' = added.mesh /\ nextId' = added.nextId
    /\ UNCHANGED << floorRadius, habitatVars, selectionVars, editorVars, dragVars,
                    timerVars, fileVars, feedback, zoneColors, crewVars >>
    /\ info' = updateInfo'
    /\ updateZonesList

\* click on a list entry's remove button
RemoveZoneClick(id) ==
    /\ zones' = RemoveZoneFrom(zones, id)
    /\ UNCHANGED << nextId, floorRadius, habitatVars, selectionVars, editorVars, dragVars,
                    timerVars, fileVars, feedback, zoneColors, crewVars >>
    /\ info' = IF FindIndex(zones, id) # 0 THEN updateInfo' ELSE info
    /\ Heap(mesh)
    /\ IF FindIndex(zones, id) # 0 THEN updateZonesList ELSE UNCHANGED zonesList

\* duplicateZone(zone): addZone(type, position + (3, 0, 0))
DuplicateOf(state, id) ==
    AddZoneTo(state, state.mesh[id].type,
              Vec(Add(state.mesh[id].position.x, 3000), state.mesh[id].position.y,
                  state.mesh[id].position.z))

\* right click on a zone, then click on the menu's 'Duplicate Zone'
DuplicateClick(id) ==
    /\ Hittable(id)
    /\ nextId <= MaxIds
    /\ zones' = DuplicateOf(Here, id).zones
    /\ mesh' = DuplicateOf(Here, id).mesh
    /\ nextId' = DuplicateOf(Here, id).nextId
    /\ feedback' = "Zone duplicated"
    /\ UNCHANGED << floorRadius, habitatVars, selectionVars, editorVars, dragVars,
                    timerVars, fileVars, zoneColors, crewVars >>
    /\ info' = updateInfo'
    /\ updateZonesList

\* click on reset-btn
ResetClick ==
    /\ zones' = resetHabitat(Here).zones
    /\ floorRadius' = radius
    /\ SetCrew(HideCrew(CrewHere))
    /\ UNCHANGED << nextId, habitatVars, selectionVars, editorVars, dragVars, timerVars,
                    fileVars, feedback, zoneColors >>
    /\ info' = updateInfo'
    /\ Heap(resetHabitat(Here).mesh)
    /\ updateZonesList

\* click on export-btn: exportLayout()
ExportClick ==
    /\ exported' = JsonFile(ExportedLayout)
    /\ feedback' = "Layout exported!"
    /\ UNCHANGED << zones, mesh, nextId, habitatVars, floorRadius, info, selectionVars,
                    editorVars, dragVars, timerVars, reader, listVars, crewVars >>

\* change event of import-file: a FileReader starts reading the chosen file
ImportFileChange(file) ==
    /\ file # NoFile
    /\ reader = NoFile
    /\ reader' = file
    /\ UNCHANGED << zones, mesh, nextId, habitatVars, floorRadius, info, selectionVars,
                    editorVars, dragVars, timerVars, exported, feedback, listVars, crewVars >>

\* a parser that takes any text for a document: what JSON.parse does not do
ParsesAnything(file) == FALSE

\* JSON.parse(text) throws
JSONparseThrows(file) == ~file.json

\* reader.onload: try { loadLayout(JSON.parse(text)) } catch { showFeedback(...) }
ReaderOnload ==
    /\ reader # NoFile
    /\ reader' = NoFile
    /\ UNCHANGED << selectionVars, editorVars, dragVars, timerVars, exported >>
    /\ IF JSONparseThrows(reader)
       THEN /\ feedback' = "Invalid JSON file!"
            /\ UNCHANGED << zones, mesh, nextId, habitatVars, floorRadius, info, listVars,
                            crewVars >>
       ELSE /\ nextId + LoadOutcome(reader.layout).added <= MaxIds + 1
            /\ loadLayout(reader.layout)
            /\ feedback' = IF LoadOutcome(reader.layout).threw
                           THEN "Invalid JSON file!" ELSE "Layout loaded!"
            /\ Heap(Loaded(reader.layout).mesh)
            /\ updateZonesList

\* ---------------------------------------------------------- drag handlers
\* left-button pointerdown; hit is the first zone under the pointer, or Null
PointerDown(hit, ctrlKey) ==
    /\ hit # Null => Hittable(hit)
    /\ IF hit # Null
       THEN /\ selectedZone' = hit
            /\ dragStartPosition' = Position(hit)
            /\ controlsEnabled' = FALSE
            /\ isDragging' = TRUE
            /\ feedback' = "Zone selected - drag to reposition"
            /\ IF ctrlKey /\ hit \notin selectedZones
               THEN selectedZones' = selectedZones \cup {hit} /\ multiSelectMode' = TRUE
               ELSE IF ~ctrlKey
                    THEN selectedZones' = {hit} /\ UNCHANGED multiSelectMode
                    ELSE UNCHANGED << selectedZones, multiSelectMode >>
       ELSE /\ selectedZones' = {}
            /\ multiSelectMode' = FALSE
            /\ UNCHANGED << selectedZone, dragStartPosition, controlsEnabled,
                            isDragging, feedback >>
    /\ UNCHANGED << zones, nextId, habitatVars, floorRadius, info, editorVars, snapToGrid,
                    timerVars, fileVars, listVars, crewVars >>
    /\ Heap(mesh)

\* pointermove while dragging; point is where the pointer ray meets the floor disc
PointerMove(point) ==
    /\ selectedZone # Null /\ isDragging
    /\ SqrtLt(PlanarSq(point), Add(floorRadius, 1))
    /\ LET p == SnappedPoint(point)
           newPosition == Vec(p.x, 1000, p.z)
           isValidPlacement == WithinBoundary(p)
           hasCollision == HasCollision(selectedZone, CollisionProbe(selectedZone, newPosition))
           finalValid == isValidPlacement /\ ~hasCollision
       IN  /\ mesh' = SetPosition(selectedZone, newPosition)
           /\ feedback' = IF finalValid THEN "Valid placement"
                          ELSE IF hasCollision THEN "Too close to another zone"
                          ELSE "Outside habitat boundary"
    /\ UNCHANGED << zones, nextId, habitatVars, floorRadius, info, selectionVars, editorVars,
                    dragVars, timerVars, fileVars, listVars, crewVars >>

\* pointerup while dragging
PointerUp(ctrlKey, elapsedZero) ==
    /\ selectedZone # Null /\ isDragging
    /\ controlsEnabled' = TRUE
    /\ isDragging' = FALSE
    /\ LET isValidPlacement == /\ WithinBoundary(Position(selectedZone))
                               /\ ~HasCollision(selectedZone, Position(selectedZone))
           first == FirstFrame(selectedZone, elapsedZero)
       IN  IF ~isValidPlacement
           THEN /\ first.again => Cardinality(anims) < MaxAnims
                /\ mesh' = SetPosition(selectedZone, first.position)
                /\ anims' = IF first.again
                            THEN anims \cup {[zone |-> selectedZone,
                                              startPosition |-> Position(selectedZone),
                                              origin |-> dragStartPosition]}
                            ELSE anims
                /\ feedback' = "Invalid placement - zone returned to original position"
           ELSE /\ feedback' = "Zone positioned successfully"
                /\ UNCHANGED << mesh, anims >>
    /\ deselectTimers' = IF ~multiSelectMode /\ ~ctrlKey
                         THEN Min(deselectTimers + 1, MaxTimers) ELSE deselectTimers
    /\ UNCHANGED << zones, nextId, habitatVars, floorRadius, info, selectionVars, editorVars,
                    dragStartPosition, snapToGrid, startupPending, fileVars,
                    listVars, crewVars >>

\* a requestAnimationFrame callback of a running animateZoneToPosition: the
\* target is the shared dragStartPosition as it is now; finished = progress 1
AnimationFrame(a, finished) ==
    /\ a \in anims
    /\ anims' = IF finished THEN anims \ {a} ELSE anims
    /\ UNCHANGED << zones, nextId, habitatVars, floorRadius, info, selectionVars, editorVars,
                    dragVars, deselectTimers, startupPending, fileVars, feedback,
                    listVars, crewVars >>
    /\ Heap(SetPosition(a.zone, IF finished THEN LerpOne(a.startPosition, dragStartPosition)
                                ELSE LerpHalf(a.startPosition, dragStartPosition)))

\* the 1 s timer of onPointerUp
DeselectTimer ==
    /\ deselectTimers > 0
    /\ deselectTimers' = deselectTimers - 1
    /\ selectedZone' = Null
    /\ UNCHANGED << zones, nextId, habitatVars, floorRadius, info, selectedZones, multiSelectMode,
                    editorVars, dragVars, anims, startupPending, fileVars, feedback,
                    listVars, crewVars >>
    /\ Heap(mesh)

\* ------------------------------------------------------------- keyboard
KeyG ==
    /\ snapToGrid' = ~snapToGrid
    /\ feedback' = IF ~snapToGrid THEN "Grid snapping enabled" ELSE "Grid snapping disabled"
    /\ UNCHANGED << zones, mesh, nextId, habitatVars, floorRadius, info, selectionVars, editorVars,
                    isDragging, dragStartPosition, controlsEnabled, timerVars, fileVars,
                    listVars, crewVars >>

RECURSIVE RemoveAll(_, _)
\* selectedZones.forEach(zone => removeZone(zone.userData.id))
RemoveAll(zs, ids) ==
    IF ids = {} THEN zs
    ELSE LET id == CHOOSE i \in ids : TRUE
         IN  RemoveAll(RemoveZoneFrom(zs, id), ids \ {id})

KeyDelete ==
    /\ selectedZones # {}
    /\ zones' = RemoveAll(zones, selectedZones)
    /\ selectedZones' = {}
    /\ feedback' = "Selected zones deleted"
    /\ UNCHANGED << nextId, habitatVars, floorRadius, selectedZone, multiSelectMode,
                    editorVars, dragVars, timerVars, fileVars, zoneColors, crewVars >>
    /\ info' = IF zones' # zones THEN updateInfo' ELSE info
    /\ Heap(mesh)
    /\ IF zones' # zones THEN updateZonesList ELSE UNCHANGED zonesList

KeyEscape ==
    /\ selectedZones' = {}
    /\ selectedZone' = Null
    /\ UNCHANGED << zones, nextId, habitatVars, floorRadius, info, multiSelectMode, editorVars,
                    dragVars, timerVars, fileVars, feedback, listVars, crewVars >>
    /\ Heap(mesh)

\* ---------------------------------------------------------- zone editor
\* click on a list entry's edit button: openZoneEditor, populateZoneEditor
OpenZoneEditor(id) ==
    /\ id \in ZoneIds
    /\ currentEditingZone' = id
    /\ posField' = Vec(toFixed1(Position(id).x), toFixed1(Position(id).y),
                       toFixed1(Position(id).z))
    /\ dimField' = mesh[id].dimensions
    /\ feedback' = "Zone editor opened"
    /\ UNCHANGED << zones, nextId, habitatVars, floorRadius, info, selectionVars, dragVars,
                    timerVars, fileVars, listVars, crewVars >>
    /\ Heap(mesh)

\* updateZonePosition(): the three fields are written to the zone as they are
updateZonePosition(fields) == SetPosition(currentEditingZone, fields)

\* updateZoneDimensions() on heap m: the three fields become the zone's
\* originalDimensions and the size of its new BoxGeometry
updateZoneDimensions(m, fields) == [m EXCEPT ![currentEditingZone].dimensions = fields]

\* updateZoneColor() on heap m: the fill of the zone being edited takes the
\* colour colors holds for its type; no other mesh is touched
updateZoneColor(m, colors) ==
    [m EXCEPT ![currentEditingZone].color = colors[m[currentEditingZone].type]]

\* input event on a position field of the open editor
PositionFieldInput(fields) ==
    /\ currentEditingZone # Null
    /\ posField' = fields
    /\ mesh' = updateZonePosition(fields)
    /\ UNCHANGED << zones, nextId, habitatVars, floorRadius, info, selectionVars,
                    currentEditingZone, dimField, dragVars, timerVars, fileVars, feedback,
                    listVars, crewVars >>

\* input event on zone-width, zone-height or zone-depth of the open editor
DimensionFieldInput(fields) ==
    /\ currentEditingZone # Null
    /\ dimField' = fields
    /\ mesh' = updateZoneDimensions(mesh, fields)
    /\ UNCHANGED << zones, nextId, habitatVars, floorRadius, info, selectionVars,
                    currentEditingZone, posField, dragVars, timerVars, fileVars, feedback,
                    listVars, crewVars >>

\* click on apply-changes: applyZoneChanges()
ApplyChangesClick ==
    /\ currentEditingZone # Null
    /\ mesh' = updateZoneColor(updateZoneDimensions(updateZonePosition(posField), dimField),
                               zoneColors)
    /\ feedback' = "Zone changes applied successfully!"
    /\ UNCHANGED << zones, nextId, habitatVars, floorRadius, info, selectionVars, editorVars,
                    dragVars, timerVars, fileVars, zoneColors, crewVars >>
    /\ updateZonesList

\* click on reset-zone: resetZoneToDefaults(): position (0, 1, 0), then
\* populateZoneEditor and applyZoneChanges
ResetZoneClick ==
    /\ currentEditingZone # Null
    /\ posField' = Vec(toFixed1(0), toFixed1(1000), toFixed1(0))
    /\ dimField' = mesh[currentEditingZone].dimensions
    /\ mesh' = updateZoneColor(updateZoneDimensions(updateZonePosition(posField'), dimField'),
                               zoneColors)
    /\ feedback' = "Zone reset to defaults"
    /\ UNCHANGED << zones, nextId, habitatVars, floorRadius, info, selectionVars,
                    currentEditingZone, dragVars, timerVars, fileVars, zoneColors, crewVars >>
    /\ updateZonesList

\* change event of zone-type-edit with the editor open
TypeEdit(type) ==
    /\ currentEditingZone # Null
    /\ mesh' = updateZoneColor([mesh EXCEPT ![currentEditingZone].type = type], zoneColors)
    /\ UNCHANGED << zones, nextId, habitatVars, floorRadius, info, selectionVars, editorVars,
                    dragVars, timerVars, fileVars, feedback, zoneColors, crewVars >>
    /\ updateZonesList

\* input event of zone-color, or click on a preset colour, with the editor
\* open: the colour of the edited zone's type is replaced in zoneColors
ColorInput(color) ==
    /\ currentEditingZone # Null
    /\ zoneColors' = [zoneColors EXCEPT ![mesh[currentEditingZone].type] = color]
    /\ mesh' = updateZoneColor(mesh, zoneColors')
    /\ UNCHANGED << zones, nextId, habitatVars, floorRadius, info, selectionVars, editorVars,
                    dragVars, timerVars, fileVars, feedback, crewVars >>
    /\ updateZonesList

\* click on close-editor
CloseEditorClick ==
    /\ currentEditingZone' = Null
    /\ feedback' = "Zone editor closed"
    /\ UNCHANGED << zones, nextId, habitatVars, floorRadius, info, selectionVars, posField,
                    dimField, dragVars, timerVars, fileVars, listVars, crewVars >>
    /\ Heap(mesh)

\* ------------------------------------------------------------- inputs
ZoneTypes == {"sleeping", "storage"}
Radii == {10000, 6500}
\* pointer points: (7, 1) is beside the built-in sleeping zone, (7.5, 4) is at
\* distance 8.5 from the centre, (5.77, -1.19) at distance 2.5 from that zone
PointerPoints == { [x |-> 7000, z |-> 1000], [x |-> 7500, z |-> 4000],
                   [x |-> 5770, z |-> -1190] }
RandomOffsets == {-4, 2500}
FieldValues == { Vec(0, 1000, 0), Vec(NaN, 1000, 0), Vec(9000, 1000, 0) }
DimensionValues == { Dim(2000, 2000, 2000), Dim(3000, 2500, 4000), Dim(1500, 2000, 1500) }
AllIds == 1..MaxIds

Files ==
    { NotJsonFile,
      JsonFile(Layout(Habitat("cylinder", 6500, 12000, 4),
                      << ZoneData("storage", StrVec(Str(FALSE, 150), Str(FALSE, 100), Str(FALSE, 200))),
                         ZoneData("kitchen", StrVec(Str(TRUE, 25), Str(FALSE, 100), Str(FALSE, 0))) >>)),
      JsonFile(Layout(Habitat("capsule", 8000, 20000, 2), <<>>)),
      JsonFile(LayoutNoHabitat(<<>>)),
      JsonFile(LayoutNoZones(Habitat("cylinder", 6500, 12000, 4))),
      JsonFile(Layout(Habitat("cylinder", NaN, 12000, 4), <<>>)),
      JsonFile(Layout(Habitat("dome", 10000, 15000, 8),
                      << ZoneData("medical", StrVec(Str(FALSE, 636), Str(FALSE, 100), Str(FALSE, 371))),
                         ZoneDataNoPosition("airlock") >>)) }

\* Math.random() - 0.5 at the ends of its range [-0.5, 0.5), in 1/10000
RandomExtremes == {-5000, 4999}

\* a document that loads without error: radius -5, height 0, crew 0
NonPositiveHabitatFile == JsonFile(Layout(Habitat("capsule", -5000, 0, 0), <<>>))

\* a document whose radius is not a number
RadiusNotANumberFile == JsonFile(Layout(Habitat("cylinder", NaN, 12000, 4), <<>>))

\* documents that load without error: a habitat with nothing positive, a
\* shape that is none of the three, a capsule lower than two thirds of its radius
HabitatFiles ==
    { NonPositiveHabitatFile,
      JsonFile(Layout(Habitat("sphere", 6500, 15000, 4), <<>>)),
      JsonFile(Layout(Habitat("capsule", 12000, 6000, 2), <<>>)) }

\* the colour picked in the editor: #ff0000
PickedColors == {16711680}

\* crew sizes set with the crew control
CrewSizes == {2, 3}

\* documents that load without error: a crew of 2, and a crew of -1
CrewFiles ==
    { JsonFile(Layout(Habitat("dome", 10000, 15000, 2), <<>>)),
      JsonFile(Layout(Habitat("dome", 10000, 15000, -1), <<>>)) }

\* a document with one storage zone
OneZoneFile ==
    JsonFile(Layout(Habitat("dome", 10000, 15000, 8),
                    << ZoneData("storage", StrVec(Str(FALSE, 150), Str(FALSE, 100), Str(FALSE, 200))) >>))

\* pointer points whose snapped point falls on the other side of the limit
\* radius - 1.5 = 8.5: (7.6, 3.6) at 8.41 snaps to (8, 4) at 8.94, and
\* (8.4, 2.4) at 8.74 snaps to (8, 2) at 8.25
SnapPoints == { [x |-> 7600, z |-> 3600], [x |-> 8400, z |-> 2400] }

\* every handler, with every input
Next ==
    \/ StartupTimer
    \/ \E s \in {"dome", "cylinder", "capsule"} : ShapeChange(s)
    \/ \E r \in Radii : RadiusInput(r)
    \/ \E h \in {15000, 12000} : HeightInput(h)
    \/ \E c \in {8, 4} : CrewInput(c)
    \/ \E t \in ZoneTypes, ux, uz \in RandomOffsets : AddZoneClick(t, ux, uz)
    \/ \E id \in AllIds : RemoveZoneClick(id)
    \/ ResetClick
    \/ ExportClick
    \/ \E f \in Files \cup {exported} : ImportFileChange(f)
    \/ ReaderOnload
    \/ \E hit \in AllIds \cup {Null}, ctrlKey \in BOOLEAN : PointerDown(hit, ctrlKey)
    \/ \E point \in PointerPoints : PointerMove(point)
    \/ \E ctrlKey, elapsedZero \in BOOLEAN : PointerUp(ctrlKey, elapsedZero)
    \/ \E a \in anims, finished \in BOOLEAN : AnimationFrame(a, finished)
    \/ DeselectTimer
    \/ KeyG
    \/ KeyDelete
    \/ KeyEscape
    \/ \E id \in AllIds : OpenZoneEditor(id)
    \/ \E fields \in FieldValues : PositionFieldInput(fields)
    \/ \E fields \in DimensionValues : DimensionFieldInput(fields)
    \/ ApplyChangesClick
    \/ ResetZoneClick
    \/ CloseEditorClick
    \/ \E id \in AllIds : DuplicateClick(id)
    \/ ToggleCrewClick
    \/ \E type \in ZoneTypes : TypeEdit(type)
    \/ \E color \in PickedColors : ColorInput(color)

Spec == Init /\ [][Next]_vars

\* Import and export, with zones added and removed in between
NextImport ==
    \/ StartupTimer
    \/ AddZoneClick("storage", -4, 2500)
    \/ ResetClick
    \/ ExportClick
    \/ \E f \in Files \cup {exported} : ImportFileChange(f)
    \/ ReaderOnload

SpecImport == Init /\ [][NextImport]_vars

\* Dragging: pointer events and the revert animation
NextDrag ==
    \/ StartupTimer
    \/ \E hit \in AllIds \cup {Null} : PointerDown(hit, FALSE)
    \/ \E point \in PointerPoints : PointerMove(point)
    \/ \E elapsedZero \in BOOLEAN : PointerUp(FALSE, elapsedZero)
    \/ \E a \in anims : AnimationFrame(a, TRUE)
    \/ KeyG

SpecDrag == Init /\ [][NextDrag]_vars

\* The zone editor's position writes, next to a drag; the pointer goes down
\* when no revert animation is running
NextEditor ==
    \/ StartupTimer
    \/ \E id \in AllIds : OpenZoneEditor(id)
    \/ \E fields \in FieldValues : PositionFieldInput(fields)
    \/ ApplyChangesClick
    \/ ResetZoneClick
    \/ CloseEditorClick
    \/ \E hit \in AllIds \cup {Null} : anims = {} /\ PointerDown(hit, FALSE)
    \/ PointerMove([x |-> 7000, z |-> 1000])
    \/ \E elapsedZero \in BOOLEAN : PointerUp(FALSE, elapsedZero)
    \/ \E a \in anims : AnimationFrame(a, TRUE)

SpecEditor == Init /\ [][NextEditor]_vars

\* Export, of zones as loaded, edited and selected
NextExport ==
    \/ StartupTimer
    \/ \E id \in AllIds : OpenZoneEditor(id)
    \/ \E fields \in FieldValues : PositionFieldInput(fields)
    \/ \E hit \in AllIds \cup {Null} : PointerDown(hit, FALSE)
    \/ ExportClick

SpecExport == Init /\ [][NextExport]_vars

\* The zone list: zones added, duplicated, removed, reset and imported, with
\* the zone editor open on the third zone made
NextZones ==
    \/ StartupTimer
    \/ AddZoneClick("storage", 2500, 2500)
    \/ \E id \in AllIds : RemoveZoneClick(id)
    \/ \E id \in AllIds : DuplicateClick(id)
    \/ ResetClick
    \/ OpenZoneEditor(3)
    \/ ImportFileChange(JsonFile(Layout(Habitat("dome", 10000, 15000, 8), <<>>)))
    \/ ReaderOnload

SpecZones == Init /\ [][NextZones]_vars

\* Duplicating zones whose dimensions were set in the zone editor
NextDuplicate ==
    \/ StartupTimer
    \/ \E id \in AllIds : OpenZoneEditor(id)
    \/ \E fields \in DimensionValues : DimensionFieldInput(fields)
    \/ \E id \in AllIds : DuplicateClick(id)

SpecDuplicate == Init /\ [][NextDuplicate]_vars

\* The add-zone button, with the radius the habitat has after imports
NextAddZone ==
    \/ StartupTimer
    \/ \E ux \in RandomExtremes : AddZoneClick("storage", ux, -5000)
    \/ \E f \in {NonPositiveHabitatFile, RadiusNotANumberFile} : ImportFileChange(f)
    \/ ReaderOnload

SpecAddZone == Init /\ [][NextAddZone]_vars

\* The habitat controls and the info panel
NextHabitat ==
    \/ StartupTimer
    \/ \E s \in {"dome", "cylinder", "capsule"} : ShapeChange(s)
    \/ \E r \in Radii : RadiusInput(r)
    \/ \E h \in {15000, 12000} : HeightInput(h)
    \/ \E c \in {8, 4} : CrewInput(c)
    \/ \E f \in HabitatFiles : ImportFileChange(f)
    \/ ReaderOnload

SpecHabitat == Init /\ [][NextHabitat]_vars

\* Export and import of zones edited in the zone editor
NextAttributes ==
    \/ StartupTimer
    \/ \E id \in AllIds : OpenZoneEditor(id)
    \/ \E fields \in DimensionValues : DimensionFieldInput(fields)
    \/ ExportClick
    \/ ImportFileChange(exported)
    \/ ReaderOnload

SpecAttributes == Init /\ [][NextAttributes]_vars

\* Drag moves with grid snapping switched on and off
NextSnap ==
    \/ StartupTimer
    \/ \E hit \in AllIds : PointerDown(hit, FALSE)
    \/ \E point \in SnapPoints : PointerMove(point)
    \/ KeyG

SpecSnap == Init /\ [][NextSnap]_vars

\* Drags next to the keyboard and the deselect timer
NextDragKeys ==
    \/ StartupTimer
    \/ \E hit \in AllIds \cup {Null} : PointerDown(hit, FALSE)
    \/ \E elapsedZero \in BOOLEAN : PointerUp(FALSE, elapsedZero)
    \/ DeselectTimer
    \/ KeyEscape
    \/ KeyDelete
    \/ \E id \in AllIds : RemoveZoneClick(id)

SpecDragKeys == Init /\ [][NextDragKeys]_vars

\* the zones list and the zone colours: zones come and go, and the editor
\* changes a zone's type or its type's colour
NextZonesList ==
    \/ StartupTimer
    \/ AddZoneClick("storage", 2500, 2500)
    \/ \E id \in AllIds : RemoveZoneClick(id)
    \/ DuplicateClick(2)
    \/ ResetClick
    \/ ImportFileChange(OneZoneFile)
    \/ ReaderOnload
    \/ OpenZoneEditor(2)
    \/ TypeEdit("storage")
    \/ \E color \in PickedColors : ColorInput(color)

SpecZonesList == Init /\ [][NextZonesList]_vars

\* the crew display: the toggle, the crew control, reset and import
NextCrew ==
    \/ StartupTimer
    \/ ToggleCrewClick
    \/ \E c \in CrewSizes : CrewInput(c)
    \/ ResetClick
    \/ \E f \in CrewFiles : ImportFileChange(f)
    \/ ReaderOnload

SpecCrew == Init /\ [][NextCrew]_vars

\* ================================================================ claims
\* ---- C1
\* C1: after an import that reports 'Layout loaded!', whatever was there
\* before, the zone list holds exactly the document's zones, in document
\* order, each with the document's type and parsed position; every zone is a
\* new object and none of the previous zones remains; shape, radius, height
\* and crew are the document's.
ImportReplacesLayout ==
    [][(ReaderOnload /\ feedback' = "Layout loaded!") =>
         /\ Len(zones') = Len(reader.layout.zones)
         /\ \A i \in 1..Len(zones') :
               /\ mesh'[zones'[i]].type = reader.layout.zones[i].type
               /\ mesh'[zones'[i]].position = ParsedPosition(reader.layout.zones[i])
               /\ \A j \in 1..Len(zones') : zones'[i] = zones'[j] => i = j
         /\ ZoneIds' \cap ZoneIds = {}
         /\ shape' = reader.layout.habitat.shape
         /\ radius' = reader.layout.habitat.radius
         /\ height' = reader.layout.habitat.height
         /\ crew' = reader.layout.habitat.crew]_vars

\* the two-zone cylinder document was imported over zones that already existed
ImportedOverZones ==
    /\ feedback = "Layout loaded!"
    /\ reader = NoFile
    /\ shape = "cylinder"
    /\ Len(zones) = 2
    /\ zones[1] > 1
    /\ mesh[zones[1]].type = "storage"
    /\ mesh[zones[2]].position = Vec(-250, 1000, 0)

\* ---- C2
\* C2: when the import of a document that is valid JSON fails, over a layout
\* that holds zones, the zone list, every zone's type and position, and the
\* habitat parameters are what they were before the import.
FailedImportRetainsLayout ==
    [][(ReaderOnload /\ reader.json /\ feedback' = "Invalid JSON file!" /\ Len(zones) > 0) =>
         /\ zones' = zones
         /\ \A i \in 1..Len(zones) : mesh'[zones[i]] = mesh[zones[i]]
         /\ UNCHANGED habitatVars]_vars

\* ---- C3
\* C3: a pointer-up that rejects the drop leaves the zone, once the revert
\* has finished (within the pointer-up itself, or at the last animation
\* frame), at the position it had at the pointer-down.
InvalidDropReverts ==
    [][/\ ((\E e \in BOOLEAN : PointerUp(FALSE, e))
            /\ feedback' = "Invalid placement - zone returned to original position"
            /\ anims' = anims)
           => mesh'[selectedZone].position = dragStartPosition
       /\ \A a \in anims :
             AnimationFrame(a, TRUE) => mesh'[a.zone].position = a.origin]_vars

\* ---- C4
\* C4: an editor operation (position input, apply changes, reset to defaults)
\* that gives the edited zone a new position gives it one that is in bounds
\* and collides with no other zone; and so does a drop that is accepted.
PositionsPassTheCheck ==
    [][/\ ((\E f \in FieldValues : PositionFieldInput(f)) \/ ApplyChangesClick \/ ResetZoneClick)
          => \/ mesh'[currentEditingZone].position = Position(currentEditingZone)
             \/ /\ WithinBoundary(mesh'[currentEditingZone].position)
                /\ ~HasCollision(currentEditingZone, mesh'[currentEditingZone].position)
       /\ ((\E e \in BOOLEAN : PointerUp(FALSE, e)) /\ feedback' = "Zone positioned successfully")
          => /\ WithinBoundary(mesh'[selectedZone].position)
             /\ ~HasCollision(selectedZone, mesh'[selectedZone].position)]_vars

\* ---- C5
\* C5: a pointer move reports 'Too close to another zone' exactly when some
\* other zone lies at distance < 2.5 from the position the zone is moved to.
MoveOutcomeOfNewPosition ==
    [][(\E point \in PointerPoints : PointerMove(point)) =>
         ((feedback' = "Too close to another zone") <=>
            \E id \in ZoneIds \ {selectedZone} :
               SqrtLt(DistSq(mesh'[selectedZone].position, Position(id)), 2500))]_vars

\* ---- C6
\* C6: a pointer-up with the zone at planar distance exactly radius - 1.5
\* rejects the drop; a pointer-up with the zone in bounds, at distance exactly
\* 2.5 from another zone and nearer to none, accepts it and leaves it there.
AtRadiusLimit(p) ==
    /\ IsNum(p.x) /\ IsNum(p.z) /\ IsNum(radius) /\ radius > 1500
    /\ p.x * p.x + p.z * p.z = (radius - 1500) * (radius - 1500)

InsideRadiusLimit(p) ==
    /\ IsNum(p.x) /\ IsNum(p.z) /\ IsNum(radius) /\ radius > 1500
    /\ p.x * p.x + p.z * p.z < (radius - 1500) * (radius - 1500)

\* the squared distance of zone id from p is a number and at least 2.5 squared
AtLeastSeparation(p, id) ==
    /\ IsNum(DistSq(p, Position(id)))
    /\ DistSq(p, Position(id)) >= 2500 * 2500

StrictThresholdsAtDrop ==
    [][(\E e \in BOOLEAN : PointerUp(FALSE, e)) =>
         /\ AtRadiusLimit(Position(selectedZone))
            => feedback' = "Invalid placement - zone returned to original position"
         /\ ( /\ InsideRadiusLimit(Position(selectedZone))
              /\ \A id \in ZoneIds \ {selectedZone} : AtLeastSeparation(Position(selectedZone), id)
              /\ \E id \in ZoneIds \ {selectedZone} :
                     DistSq(Position(selectedZone), Position(id)) = 2500 * 2500 )
            => /\ feedback' = "Zone positioned successfully"
               /\ mesh' = mesh /\ anims' = anims]_vars

\* a zone has just been dropped, and accepted, in bounds at exactly 2.5 from
\* another zone
AcceptedAtSeparation ==
    /\ feedback = "Zone positioned successfully"
    /\ ~isDragging
    /\ selectedZone \in ZoneIds
    /\ InsideRadiusLimit(Position(selectedZone))
    /\ \E id \in ZoneIds \ {selectedZone} :
          DistSq(Position(selectedZone), Position(id)) = 2500 * 2500

\* ---- C7
\* C7: when a pointer-up reports 'Zone positioned successfully', the zone is
\* at planar distance < radius - 1.5 and at distance >= 2.5 from every other
\* zone of the layout.
AcceptedDropIsValid ==
    [][((\E e \in BOOLEAN : PointerUp(FALSE, e)) /\ feedback' = "Zone positioned successfully") =>
         /\ InsideRadiusLimit(mesh'[selectedZone].position)
         /\ \A id \in ZoneIds \ {selectedZone} :
               AtLeastSeparation(mesh'[selectedZone].position, id)]_vars

\* ---- C8
\* v rounded to 2 decimal places
Rounded2(v) == IF v < 0 THEN -(((-v + 5) \div 10) * 10) ELSE ((v + 5) \div 10) * 10

\* C8: importing the document export has just produced from a layout whose
\* numbers are all numbers succeeds, keeps shape, radius, height, crew, the
\* number, order and types of the zones, gives each zone its position rounded
\* to 2 decimal places, and an export after it produces the same document.
ExportImportRoundTrip ==
    [][( /\ ReaderOnload
         /\ reader = JsonFile(ExportedLayout)
         /\ IsNum(radius) /\ IsNum(height)
         /\ \A i \in 1..Len(zones) :
               IsNum(Position(zones[i]).x) /\ IsNum(Position(zones[i]).z) ) =>
         /\ feedback' = "Layout loaded!"
         /\ UNCHANGED habitatVars
         /\ Len(zones') = Len(zones)
         /\ \A i \in 1..Len(zones) :
               /\ mesh'[zones'[i]].type = mesh[zones[i]].type
               /\ mesh'[zones'[i]].position =
                     Vec(Rounded2(Position(zones[i]).x), Rounded2(Position(zones[i]).y),
                         Rounded2(Position(zones[i]).z))
         /\ ExportedLayout' = reader.layout]_vars

\* ---- C9
\* C9: when the file's text is not valid JSON, the import reports 'Invalid
\* JSON file!' and the zone list, every zone's type and position, and shape,
\* radius, height and crew stay as they were.
InvalidJsonChangesNothing ==
    [][(ReaderOnload /\ ~reader.json) =>
         /\ feedback' = "Invalid JSON file!"
         /\ zones' = zones
         /\ \A i \in 1..Len(zones) : mesh'[zones[i]] = mesh[zones[i]]
         /\ UNCHANGED << habitatVars, floorRadius, nextId >>]_vars

\* text that is not JSON was imported, and the zones of the start-up layout
\* are still the zone list (any loadLayout since would have replaced them)
InvalidJsonOverZones ==
    /\ feedback = "Invalid JSON file!"
    /\ reader = NoFile
    /\ ~startupPending
    /\ Len(zones) >= InitialZones
    /\ zones[1] = 1

\* ---- C10
\* a decimal string with exactly two fractional digits that reads as v rounded
TwoDigitString(s, v) == ~s.nan /\ IsNum(v) /\ parseFloat2(s) = Rounded2(v)

\* C10: export emits the current shape, radius, height and crew and one entry
\* per zone, in the order of the zone list, with the zone's type and x, y, z
\* each a decimal string with two fractional digits; it changes no zone, no
\* habitat parameter, no selection and no drag state.
ExportContentAndFrame ==
    [][ExportClick =>
         /\ UNCHANGED << zones, mesh, habitatVars, selectionVars, dragVars >>
         /\ exported'.json
         /\ exported'.layout.habitat = Habitat(shape, radius, height, crew)
         /\ Len(exported'.layout.zones) = Len(zones)
         /\ \A i \in 1..Len(zones) :
               /\ exported'.layout.zones[i].type = mesh[zones[i]].type
               /\ TwoDigitString(exported'.layout.zones[i].position.x, Position(zones[i]).x)
               /\ TwoDigitString(exported'.layout.zones[i].position.y, Position(zones[i]).y)
               /\ TwoDigitString(exported'.layout.zones[i].position.z, Position(zones[i]).z)]_vars

\* a step of the zone editor that writes the edited zone's position
EditorPositionWrite ==
    \/ \E fields \in FieldValues : PositionFieldInput(fields)
    \/ ApplyChangesClick
    \/ ResetZoneClick

\* C11: while a revert animation is running on a zone, no pointermove of a
\* drag and no zone editor edit writes that zone's position.
OneWriterPerZone ==
    [][ /\ EditorPositionWrite => \A a \in anims : a.zone # currentEditingZone
        /\ (\E point \in PointerPoints : PointerMove(point))
               => \A a \in anims : a.zone # selectedZone ]_vars

\* the user's requests that take zones out of the layout
ExplicitRemoval ==
    \/ \E id \in AllIds : RemoveZoneClick(id)
    \/ KeyDelete
    \/ ResetClick
    \/ ReaderOnload

\* C12: a zone leaves the layout only by a removal, a reset or an import the
\* user asked for; the start-up timer keeps the zones added before it fires.
ZonesLeaveOnlyOnRequest ==
    [][ (\E id \in ZoneIds : id \notin ZoneIds') => ExplicitRemoval ]_vars

\* ids are pairwise distinct in a zone array
DistinctIds(zs) == \A i, j \in 1..Len(zs) : i # j => zs[i] # zs[j]

\* a step that is one addZone, from the button or from duplicateZone
OneZoneAdded ==
    \/ AddZoneClick("storage", 2500, 2500)
    \/ \E id \in AllIds : DuplicateClick(id)

\* C13: after every add, duplicate, remove, reset and import the ids in the
\* layout are pairwise distinct; a zone that stays in the layout keeps its id
\* and its place relative to the others that stay; an id that enters the
\* layout was never given to a zone before, so a zone added after a removal
\* differs in id from the removed one, and the count is back where it was:
\* a removal of a present zone takes one away, an add puts one in.
IdsDistinctAndNeverReused ==
    [][ /\ DistinctIds(zones')
        /\ \A id \in ZoneIds' \ ZoneIds : id >= nextId /\ id \notin DOMAIN mesh
        /\ OneZoneAdded => Len(zones') = Len(zones) + 1 /\ ZoneIds \subseteq ZoneIds'
        /\ \A id \in ZoneIds :
               RemoveZoneClick(id) => Len(zones') = Len(zones) - 1 ]_vars

\* a zone has been removed (the zone editor still refers to it) and the
\* layout, as long as before, holds a later zone of its type at its position
ReaddedAfterRemoval ==
    /\ currentEditingZone # Null /\ currentEditingZone \notin ZoneIds
    /\ Len(zones) = InitialZones + 1
    /\ \E id \in ZoneIds :
          /\ id > currentEditingZone
          /\ mesh[id].type = mesh[currentEditingZone].type
          /\ mesh[id].position = mesh[currentEditingZone].position

\* zs without the entries equal to id, the others in their order
Without(zs, id) == SelectSeq(zs, LAMBDA z : z # id)

\* C14: removeZone(id) takes exactly the zone with that id out of the list;
\* every other zone stays, in the same relative order, with its position and
\* its other attributes; with no such zone nothing changes and nothing is
\* reported, so a second removeZone(id) changes nothing.
RemoveZoneRemovesExactlyOne ==
    [][ \A id \in AllIds :
           RemoveZoneClick(id) =>
               /\ zones' = Without(zones, id)
               /\ id \in ZoneIds => Len(zones') = Len(zones) - 1
               /\ \A z \in ZoneIds' : mesh'[z] = mesh[z]
               /\ id \notin ZoneIds => zones' = zones /\ info' = info /\ feedback' = feedback
               /\ RemoveZoneFrom(zones', id) = zones' ]_vars

\* a zone has been removed from between two zones, which are still there
RemovedFromBetween == \E i \in 1..(Len(zones) - 1) : zones[i + 1] > zones[i] + 1

\* C15: duplicateZone on a zone adds exactly one zone, at the end, with an id
\* not used before, with the zone's type and its width, height and depth as
\* set in the zone editor, at the zone's position plus (3, 0, 0) whatever that
\* position is; the zone itself and all other zones are unchanged.
DuplicateClonesZone ==
    [][ \A id \in AllIds :
           DuplicateClick(id) =>
               LET new == zones'[Len(zones')]
               IN  /\ Len(zones') = Len(zones) + 1
                   /\ SubSeq(zones', 1, Len(zones)) = zones
                   /\ new \notin DOMAIN mesh
                   /\ mesh'[new].type = mesh[id].type
                   /\ mesh'[new].dimensions = mesh[id].dimensions
                   /\ mesh'[new].position = Vec(Add(Position(id).x, 3000), Position(id).y,
                                                Position(id).z)
                   /\ \A z \in ZoneIds : mesh'[z] = mesh[z] ]_vars

\* v lies in [-radius / 2, radius / 2]
InHalfRadius(v) == IsNum(v) /\ IsNum(radius) /\ -radius <= 2 * v /\ 2 * v <= radius

\* C16: addZone without a position appends exactly one zone, with x and z in
\* [-radius / 2, radius / 2] for the radius the habitat has and y = 1; the
\* zones there before are unchanged and in the same order.
AddZoneAppendsWithinHalfRadius ==
    [][ (\E ux \in RandomExtremes : AddZoneClick("storage", ux, -5000)) =>
            LET new == zones'[Len(zones')]
            IN  /\ Len(zones') = Len(zones) + 1
                /\ SubSeq(zones', 1, Len(zones)) = zones
                /\ \A z \in ZoneIds : mesh'[z] = mesh[z]
                /\ mesh'[new].position.y = 1000
                /\ InHalfRadius(mesh'[new].position.x)
                /\ InHalfRadius(mesh'[new].position.z) ]_vars

\* C17: whatever has happened, imports of documents that load without error
\* included, radius > 0, height > 0 and crew >= 1.
HabitatParametersPositive == radius > 0 /\ height > 0 /\ crew >= 1

\* the info panel shows, as figures, a volume that is not positive or a
\* per-astronaut volume divided by a crew that is not positive
ShowsInvalidFigures ==
    /\ info # NoInfo
    /\ \/ IsNum(info.volume) /\ info.volume <= 0
       \/ info.perAstronaut.kind \in {"Infinity", "-Infinity"}
       \/ info.perAstronaut.kind = "number" /\ info.perAstronaut.den <= 0

\* C18: updateInfo never displays the figures of a configuration whose volume
\* is not positive or whose crew is not positive; it reports the
\* configuration as invalid instead.
InvalidConfigurationSurfaced == ~ShowsInvalidFigures

\* C19: whenever updateInfo has written the panel for radius > 0 and
\* height > 0 (height > 2 radius unless the shape is cylinder or dome), the
\* volume is positive and is, with the factor pi / 3 taken out and lengths in
\* half metres, 2 r^3 for the dome, 3 r^2 h for the cylinder and
\* 3 r^2 (h - 2 r) + 4 r^3 for every other shape value; the floor area is
\* r^2 (times pi) for every shape.
VolumeByShape ==
    [][ info' # info =>
            LET r == radius' \div 500
                h == height' \div 500
            IN  (radius' > 0 /\ height' > 0
                 /\ (shape' \notin {"cylinder", "dome"} => height' > 2 * radius')) =>
                    /\ info'.volume > 0
                    /\ info'.floorArea = r * r
                    /\ shape' = "dome" => info'.volume = 2 * r * r * r
                    /\ shape' = "cylinder" => info'.volume = 3 * r * r * h
                    /\ shape' \notin {"cylinder", "dome"} =>
                           info'.volume = 3 * r * r * (h - 2 * r) + 4 * r * r * r ]_vars

\* the panel shows the capsule volume of a shape that is none of the three:
\* radius 6.5, height 15, 3 * 169 * (30 - 26) + 4 * 2197 = 10816
OtherShapeShownAsCapsule ==
    /\ shape = "sphere" /\ radius = 6500 /\ height = 15000
    /\ info.volume = 10816 /\ info.floorArea = 169

\* C20: importing the document export has just produced restores the design
\* in full: each zone has the dimensions it had before the export, next to
\* its type.
ImportRestoresDimensions ==
    [][ (ReaderOnload /\ reader = JsonFile(ExportedLayout)) =>
            /\ Len(zones') = Len(zones)
            /\ \A i \in 1..Len(zones) :
                  /\ mesh'[zones'[i]].type = mesh[zones[i]].type
                  /\ mesh'[zones'[i]].dimensions = mesh[zones[i]].dimensions ]_vars

\* ---- C21
\* C21: snapToGrid starts set and the G key inverts it; while it is set, a
\* drag move writes a position whose x and z are whole metres and whose y is
\* 1, and the move reports 'Valid placement' only if that written (snapped)
\* point is inside radius - 1.5 and 'Outside habitat boundary' only if it is
\* not, whatever side the raw pointer point is on.
SnappedMoves ==
    /\ snapToGrid = TRUE
    /\ [][ /\ KeyG => snapToGrid' = ~snapToGrid
           /\ (\E point \in SnapPoints : PointerMove(point)) =>
                 LET written == mesh'[selectedZone].position
                     inside == written.x * written.x + written.z * written.z
                                   < (radius - 1500) * (radius - 1500)
                 IN  /\ written.y = 1000
                     /\ snapToGrid => written.x % 1000 = 0 /\ written.z % 1000 = 0
                     /\ feedback' = "Valid placement" => inside
                     /\ feedback' = "Outside habitat boundary" => ~inside ]_vars

\* a drag move has put a zone on the snapped point (8, 1, 4) and reported it
\* outside, the raw point (7.6, 3.6) being inside
SnappedPointJudged ==
    /\ snapToGrid /\ isDragging /\ selectedZone # Null
    /\ Position(selectedZone) = Vec(8000, 1000, 4000)
    /\ feedback = "Outside habitat boundary"

\* ---- C22
\* C22: controls are disabled exactly while a drag is on, and a drag that is
\* on can be ended: the next pointer-up finds the condition of onPointerUp
\* (selectedZone set and isDragging) true and so clears isDragging and
\* enables the controls, whatever keys, removals and timers came in between.
DragCanEnd ==
    /\ controlsEnabled <=> ~isDragging
    /\ isDragging => selectedZone # Null

\* ---- C23
\* C23: the deselect timer of an earlier pointer-up leaves the selectedZone of
\* a drag that is on alone: while isDragging, selectedZone stays the zone the
\* pointer went down on.
TimerSparesCurrentDrag ==
    [][ (DeselectTimer /\ isDragging) => selectedZone' = selectedZone ]_vars

\* ---- C24
\* C24: a revert animation of a zone that finishes while a later drag of
\* another zone is on leaves its zone at the position that zone had at its
\* own pointer-down.
RevertTargetIsOwnStart ==
    [][ \A a \in anims :
           (AnimationFrame(a, TRUE) /\ isDragging /\ selectedZone # a.zone)
               => mesh'[a.zone].position = a.origin ]_vars

\* ---- C25
\* C25: a pointer-up on a zone that has not been moved since its pointer-down
\* leaves the zone's position as it was, whether or not that position passes
\* the bounds and collision tests.
ClickKeepsPosition ==
    [][ ((\E e \in BOOLEAN : PointerUp(FALSE, e))
          /\ Position(selectedZone) = dragStartPosition)
            => mesh'[selectedZone].position = Position(selectedZone) ]_vars

\* ---- C26
\* C26: selectedZone, every member of selectedZones and currentEditingZone
\* are each null or a zone that is in the zone list.
ReferencesAreInLayout ==
    /\ selectedZone # Null => selectedZone \in ZoneIds
    /\ selectedZones \subseteq ZoneIds
    /\ currentEditingZone # Null => currentEditingZone \in ZoneIds

\* C29: while showCrew is true the number of avatars equals the value of the
\* crew control, while it is false there is no avatar, and a reset or an
\* import leaves showCrew false.
AvatarsMatchCrew ==
    /\ [](IF showCrew THEN crewAvatars = crew /\ sceneAvatars = crew
                      ELSE crewAvatars = 0 /\ sceneAvatars = 0)
    /\ [][(ResetClick \/ StartupTimer \/ (ReaderOnload /\ ~JSONparseThrows(reader)))
              => ~showCrew']_vars

\* the same with a crew control that holds a count (crew >= 0)
AvatarsMatchCountingCrew ==
    /\ [](crew >= 0 =>
            IF showCrew THEN crewAvatars = crew /\ sceneAvatars = crew
                        ELSE crewAvatars = 0 /\ sceneAvatars = 0)
    /\ [][(ResetClick \/ StartupTimer \/ (ReaderOnload /\ ~JSONparseThrows(reader)))
              => ~showCrew']_vars

\* C30: while the crew is hidden the scene holds no crew avatar and no crew
\* particle-trail object, however often the crew was shown and hidden.
NoCrewObjectsWhileHidden == ~showCrew => sceneAvatars = 0 /\ sceneParticles = 0

\* the avatars do leave the scene whenever the crew is hidden
NoAvatarsWhileHidden == ~showCrew => sceneAvatars = 0 /\ crewAvatars = 0

\* C27: the fill colour of every zone is the colour zoneColors now holds for
\* the zone's type (so zones of one type have one colour), and the swatch of
\* its list entry is the colour of its mesh.
FillIsColourOfType ==
    /\ Len(zonesList) = Len(zones)
    /\ \A i \in 1..Len(zones) :
          /\ mesh[zones[i]].color = zoneColors[mesh[zones[i]].type]
          /\ zonesList[i].swatch = mesh[zones[i]].color

\* C28: the zones list holds exactly one entry per zone, in insertion order,
\* each showing the zone's current type, and the displayed zone count is the
\* number of zones.
ListShowsEveryZone ==
    /\ Len(zonesList) = Len(zones)
    /\ \A i \in 1..Len(zones) :
          /\ zonesList[i].id = zones[i]
          /\ zonesList[i].type = mesh[zones[i]].type
          /\ \A j \in 1..(i - 1) : zonesList[j].id < zonesList[i].id
    /\ info.zonesCount = Len(zones)

\* three zones are listed, and the type of the second, a bathroom when it was
\* added, was edited to storage
TypeEditedInList ==
    /\ Len(zones) = 3
    /\ currentEditingZone = zones[2]
    /\ zones[2] = 2
    /\ zonesList[2].type = "storage"

====
